---- MODULE Spec2Model ----
(***************************************************************************)
(* Model of the REPOSITORY_SYNC socket handler of src/api/repository.js:   *)
(* request validation, the async.auto task graph (repo, issues, records,   *)
(* webhooks, train), the progress emitter and the final callback.          *)
(*                                                                         *)
(* JavaScript runs every callback to completion, so each action below is   *)
(* one callback of the program run atomically: the request handler, or the *)
(* completion of one collaborator call (GitHub API, issue fetcher,         *)
(* database, classifier) together with everything it calls synchronously.  *)
(***************************************************************************)
EXTENDS Integers, Sequences, FiniteSets, Bags, TLC

\* ------------------------------------------------------------------ bounds
\* Largest number of issues the issue fetcher returns.
MaxIssues == 2
\* Number of pages the issue fetcher reports before it resolves.
MaxPages == 2

\* ------------------------------------------------------------- JS values
Undefined == [kind |-> "undefined"]
Null == [kind |-> "null"]
Str(s) == [kind |-> "string", value |-> s]
Error(m) == [kind |-> "error", message |-> m]
Num(n) == [kind |-> "number", value |-> n]
Falsy(v) == v \in {Undefined, Null, Str("")}

\* A key that an object does not have (distinct from a key holding undefined).
Absent == [kind |-> "absent"]

\* Messages carried by the errors the collaborators return.
Messages == {"E1", "E2"}
\* Messages carried by the errors of the webhook registration.
HookMessages == {"H1"}

\* err && err.message
ErrMessage(err) ==
  IF Falsy(err) THEN err
  ELSE IF err.kind = "error" THEN Str(err.message) ELSE Undefined

\* ------------------------------------------------------------ task graph
TaskKeys == <<"repo", "issues", "records", "webhooks", "train">>
TaskSet == {TaskKeys[i] : i \in 1..Len(TaskKeys)}

\* The dependency arrays with records waiting for repo alone.
DependenciesWithoutIssues ==
  [repo |-> <<>>,
   issues |-> <<>>,
   records |-> <<"repo">>,
   webhooks |-> <<"repo">>,
   train |-> <<"repo", "records">>]

\* The dependency arrays of the object given to async.auto.
Dependencies ==
  [repo |-> <<>>,
   issues |-> <<>>,
   records |-> <<"repo", "issues">>,
   webhooks |-> <<"repo">>,
   train |-> <<"repo", "records">>]

DepSet(key) == {Dependencies[key][i] : i \in 1..Len(Dependencies[key])}

\* Percent values are kept in tenths: 0, 5 (0.5), 6 (0.6), 10 (1).
PercentZero == 0
PercentHalf == 5
\* A percent after the deletion that lies below the one after the upsert.
PercentBelowHalf == PercentHalf - 1
PercentSix == 6
PercentOne == 10

\* ----------------------------------------------------------- request URLs
Urls == {"", "https://github.com/acme", "https://github.com/acme/widgets",
         "https://github.com/acme/gadgets"}

\* parseGitHubUrl: null for an empty string, otherwise the parsed reference;
\* a URL without a repository segment has no name.
parseGitHubUrl(url) ==
  CASE url = "" -> Null
    [] url = "https://github.com/acme" ->
         [kind |-> "ref", owner |-> "acme", name |-> "", repo |-> ""]
    [] url = "https://github.com/acme/widgets" ->
         [kind |-> "ref", owner |-> "acme", name |-> "widgets", repo |-> "acme/widgets"]
    [] url = "https://github.com/acme/gadgets" ->
         [kind |-> "ref", owner |-> "acme", name |-> "gadgets", repo |-> "acme/gadgets"]

\* GitHub's numeric id of a repository.
RepoId(repo) == IF repo = "acme/widgets" THEN 1 ELSE 2

MISSING_GITHUB == Str("MISSING_GITHUB")
INVALID_URL == Str("Invalid repository URL. Please try again.")

\* The connected sockets; the handler is registered once per socket.
Sockets == {"s1", "s2"}

Runs == {"r1", "r2"}
\* The requests of one behaviour of Spec.
Solo == {"r1"}

VARIABLES
  github,     \* per socket: socket.github is set (an authenticated session)
  rooms,      \* per socket: the rooms the socket is a member of
  runs,       \* per request: the closure state of the handler and of async.auto
  dbRepository, \* rows of the Repository table
  dbIssue     \* rows of the Issue table (a bag)

vars == <<github, rooms, runs, dbRepository, dbIssue>>

\* The state of a request that has not been made.
NoRun ==
  [socket |-> "s1", requested |-> FALSE, url |-> "",
   owner |-> "", name |-> "", repoRoom |-> "",
   results |-> [t \in TaskSet |-> Absent],
   runningTasks |-> 0,
   hasError |-> FALSE,
   listeners |-> [t \in TaskSet |-> <<>>],
   remainingDependencies |-> [t \in TaskSet |-> 0],
   readyTasks |-> <<>>,
   called |-> FALSE,
   pc |-> [t \in TaskSet |-> "idle"],
   pages |-> 0,
   issues |-> <<>>,
   emitted |-> [t \in TaskSet |-> <<>>],
   audience |-> [t \in TaskSet |-> <<>>],
   calls |-> <<>>,
   reply |-> <<>>,
   history |-> <<>>]

Init ==
  /\ \E b \in BOOLEAN : github = [s \in Sockets |-> b]
  /\ rooms = [s \in Sockets |-> {}]
  /\ runs = [r \in Runs |-> NoRun]
  /\ dbRepository = {}
  /\ dbIssue = EmptyBag

\* ------------------------------------------------------ progress emitter
\* progress(data): publishes {task, percent, message} to the repository room.
\* The events are kept per task, in the order published.
Progress(st, task, percent, message) ==
  [st EXCEPT !.emitted[task] = Append(@, [percent |-> percent, message |-> message])]

\* A call to a collaborator, kept in the order the calls are made.
Call(st, fn, arg) == [st EXCEPT !.calls = Append(@, [fn |-> fn, arg |-> arg])]

\* ------------------------------------------------------------ async.auto
\* The executor is async.auto of the async library, in the form the handler
\* uses it (task bodies take (results, cb), so async 2 or later): a task is
\* queued when the last of its dependencies has succeeded; the first task
\* error sets hasError, drops the listeners and calls the once-wrapped final
\* callback at once with a copy of the results plus the failed key.
\* Collaborator errors are Error objects with a non-empty message.
RECURSIVE ProcessQueue(_)
RECURSIVE RunTask(_, _)
RECURSIVE TaskCallback(_, _, _, _)
RECURSIVE TaskComplete(_, _)

\* ------------------------------------------------------- final callback
\* The function given to async.auto as its callback: leaves the room and
\* answers the request with (err && err.message, results).
FinalCallback(st, err, results) ==
  [st EXCEPT !.reply = Append(@, [err |-> ErrMessage(err), results |-> results])]

\* The callback without once: every call goes through.
CallbackEveryCall(st, err, results) ==
  FinalCallback([st EXCEPT !.called = TRUE], err, results)

\* callback = once(callback): only the first call goes through.
Callback(st, err, results) ==
  IF st.called THEN st
  ELSE FinalCallback([st EXCEPT !.called = TRUE], err, results)

\* A failure that is only reported: the run is not marked failed and the
\* listeners stay.
TaskFailedKeepsGoing(st, key, err, result) ==
  Callback(st, err, [st.results EXCEPT ![key] = result])

\* A failure that stops the run without telling the caller.
TaskFailedSilently(st, key, err, result) ==
  [st EXCEPT !.hasError = TRUE, !.listeners = [t \in TaskSet |-> <<>>]]

\* A failure reported with the results map itself, without the failed key.
TaskFailedBareResults(st, key, err, result) ==
  Callback([st EXCEPT !.hasError = TRUE,
                      !.listeners = [t \in TaskSet |-> <<>>]],
           err, st.results)

\* A failure handled like a success: the dependents are notified.
TaskFailedNotifies(st, key, err, result) ==
  TaskComplete([st EXCEPT !.results[key] = result], key)

\* The error branch of taskCallback: the results so far are copied, the failed
\* key is added to the copy, the run is marked failed, the listeners are
\* dropped and the callback is called with the error at once.
TaskFailed(st, key, err, result) ==
  LET safeResults == [st.results EXCEPT ![key] = result]
  IN Callback([st EXCEPT !.hasError = TRUE,
                         !.listeners = [t \in TaskSet |-> <<>>]],
              err, safeResults)

\* enqueueTask(key, task)
EnqueueTask(st, key) == [st EXCEPT !.readyTasks = Append(@, key)]

\* A listener that queues its task one dependency too early.
ListenerEarly(st, key) ==
  LET s1 == [st EXCEPT !.remainingDependencies[key] = @ - 1]
  IN IF s1.remainingDependencies[key] <= 1 THEN EnqueueTask(s1, key) ELSE s1

\* The listener added for task `key` on each of its dependencies.
Listener(st, key) ==
  LET s1 == [st EXCEPT !.remainingDependencies[key] = @ - 1]
  IN IF s1.remainingDependencies[key] = 0 THEN EnqueueTask(s1, key) ELSE s1

RECURSIVE FireListeners(_, _)
FireListeners(st, taskListeners) ==
  IF taskListeners = <<>> THEN st
  ELSE FireListeners(Listener(st, Head(taskListeners)), Tail(taskListeners))

\* The number of tasks: async.auto's default concurrency.
Concurrency == Len(TaskKeys)

\* runTask's guard: a task is not run once a task has failed.
MayRun(st) == ~st.hasError

\* taskComplete(taskName)
TaskComplete(st, taskName) ==
  ProcessQueue(FireListeners(st, st.listeners[taskName]))

\* taskCallback(err, result) of task `key`.
TaskCallback(st, key, err, result) ==
  LET s1 == [st EXCEPT !.runningTasks = @ - 1,
                       !.pc[key] = IF Falsy(err) THEN "succeeded" ELSE "failed",
                       !.history = Append(@, [task |-> key, err |-> err])]
  IN IF ~Falsy(err)
       THEN TaskFailed(s1, key, err, result)
       ELSE TaskComplete([s1 EXCEPT !.results[key] = result], key)

\* The test with the threshold one too low: if (issues.length < 1)
SkipTrainingBelowOne(issues) == issues.length < 1

\* if (issues.length <= 1): too few issues to train on.
SkipTraining(issues) == issues.length <= 1

\* The synchronous part of each task's body, up to its collaborator call.
TaskBody(st, key) ==
  CASE key = "repo" ->
         [Call(Progress(st, "repo", PercentZero, Undefined), "repos.get", Undefined)
            EXCEPT !.pc["repo"] = "get"]
    [] key = "issues" ->
         [Call(st, "getIssues", Undefined) EXCEPT !.pc["issues"] = "getIssues"]
    [] key = "records" ->
         [Call(Progress(st, "records", PercentZero, Undefined), "upsert", Undefined)
            EXCEPT !.pc["records"] = "upsert"]
    [] key = "webhooks" ->
         [Call(Progress(st, "webhooks", PercentZero, Undefined), "createHook", Undefined)
            EXCEPT !.pc["webhooks"] = "createHook"]
    [] key = "train" ->
         LET s0 == Progress(st, "train", PercentZero, Undefined)
             issues == s0.results["issues"]
         IN IF issues \in {Absent, Undefined}
              THEN \* issues.length of undefined throws
                   [s0 EXCEPT !.pc["train"] = "threw"]
              ELSE IF SkipTraining(issues)
                THEN TaskCallback(Progress(s0, "train", PercentOne, Undefined),
                                  "train", Undefined, Undefined)
                ELSE [Call(s0, "train",
                           [owner |-> s0.results["repo"].owner,
                            name |-> s0.results["repo"].name,
                            issues |-> s0.issues,
                            ignoreLabels |-> <<>>])
                        EXCEPT !.pc["train"] = "train"]

\* runTask(key, task)
RunTask(st, key) ==
  IF ~MayRun(st) THEN st
  ELSE TaskBody([st EXCEPT !.runningTasks = @ + 1], key)

RECURSIVE RunReady(_)
\* The while loop of processQueue.
RunReady(st) ==
  IF st.readyTasks # <<>> /\ st.runningTasks < Concurrency
    THEN RunReady(RunTask([st EXCEPT !.readyTasks = Tail(@)], Head(st.readyTasks)))
    ELSE st

\* processQueue() without the test that no task is running.
ProcessQueueIgnoresRunning(st) ==
  IF st.readyTasks = <<>>
    THEN Callback(st, Null, st.results)
    ELSE RunReady(st)

\* processQueue()
ProcessQueue(st) ==
  IF st.readyTasks = <<>> /\ st.runningTasks = 0
    THEN Callback(st, Null, st.results)
    ELSE RunReady(st)

\* async.auto(tasks, callback): registers the listeners, queues the tasks
\* that have no dependencies and processes the queue.
Auto(st) ==
  LET noDeps == SelectSeq(TaskKeys, LAMBDA k : Dependencies[k] = <<>>)
      s1 == [st EXCEPT
               !.remainingDependencies = [t \in TaskSet |-> Len(Dependencies[t])],
               !.listeners = [d \in TaskSet |->
                                SelectSeq(TaskKeys, LAMBDA k : d \in DepSet(k))],
               !.readyTasks = noDeps]
  IN ProcessQueue(s1)

\* --------------------------------------------------------------- actions
\* The sockets that are members of a room.
Members(rms, room) == {s \in Sockets : room \in rms[s]}

\* io.sockets.in(repoRoom).emit: the events published in the current callback
\* go to the sockets that are members of the room; `answered` tells whether
\* the request had been answered before the callback.
Deliver(st, members, answered) ==
  [st EXCEPT !.audience =
     [t \in TaskSet |->
        st.audience[t] \o
          [i \in 1..(Len(st.emitted[t]) - Len(st.audience[t])) |->
             [to |-> members, answered |-> answered]]]]

\* The room of a repository named by its owner alone.
RoomOfOwner(repo) == "repo:" \o repo.owner

\* let repoRoom = `repo:${repo.repo}`
RoomOf(repo) == "repo:" \o repo.repo

\* One callback of request r ends in state `new`: the final callback, when it
\* ran in this step, has left the repository room (socket.leave).
Commit(r, new) ==
  /\ runs' = [runs EXCEPT ![r] = Deliver(new, Members(rooms, runs[r].repoRoom),
                                         runs[r].reply # <<>>)]
  /\ rooms' = IF Len(new.reply) > Len(runs[r].reply)
                THEN [rooms EXCEPT ![runs[r].socket] = @ \ {runs[r].repoRoom}]
                ELSE rooms

\* The test without the name: if (repo)
ValidRepoIgnoresName(repo) == ~Falsy(repo)

\* if (repo && repo.name)
ValidRepo(repo) == ~Falsy(repo) /\ ~Falsy(Str(repo.name))

\* socket.on(REPOSITORY_SYNC, (repository_url, cb) => ...)
Request(r, url) ==
  /\ ~runs[r].requested
  /\ LET st == [runs[r] EXCEPT !.requested = TRUE, !.url = url]
         repo == parseGitHubUrl(url)
     IN IF ~github[st.socket]
          THEN /\ runs' = [runs EXCEPT ![r] =
                     [st EXCEPT !.reply = <<[err |-> MISSING_GITHUB, results |-> Undefined]>>]]
               /\ rooms' = rooms
          ELSE IF ValidRepo(repo)
            THEN LET repoRoom == RoomOf(repo)
                     joined == [rooms EXCEPT ![st.socket] = @ \cup {repoRoom}]
                 IN /\ rooms' = joined
                    /\ runs' = [runs EXCEPT ![r] =
                          Deliver(Auto([st EXCEPT !.owner = repo.owner,
                                                  !.name = repo.name,
                                                  !.repoRoom = repoRoom]),
                                  Members(joined, repoRoom), FALSE)]
            ELSE /\ runs' = [runs EXCEPT ![r] =
                       [st EXCEPT !.reply = <<[err |-> INVALID_URL, results |-> Undefined]>>]]
                 /\ rooms' = rooms
  /\ UNCHANGED <<github, dbRepository, dbIssue>>

\* socket.github.repos.get answers with the repository.
RepoGetOk(r) ==
  LET st == runs[r]
      repo == [kind |-> "repo", id |-> RepoId(st.owner \o "/" \o st.name),
               owner |-> st.owner, name |-> st.name]
  IN /\ st.pc["repo"] = "get"
     /\ Commit(r, TaskCallback(Progress(st, "repo", PercentOne, Undefined),
                               "repo", Null, repo))
     /\ UNCHANGED <<github, dbRepository, dbIssue>>

\* socket.github.repos.get answers with an error.
RepoGetErr(r, m) ==
  /\ runs[r].pc["repo"] = "get"
  /\ Commit(r, TaskCallback(runs[r], "repo", Error(m), Undefined))
  /\ UNCHANGED <<github, dbRepository, dbIssue>>

\* getIssues reports a fetched page through showProgress: the share of the
\* pages fetched so far.
PagePercent(pages) == (pages * PercentOne) \div MaxPages

IssuesPage(r) ==
  LET st == runs[r]
  IN /\ st.pc["issues"] = "getIssues"
     /\ st.pages < MaxPages
     /\ Commit(r, Progress([st EXCEPT !.pages = @ + 1], "issues",
                           PagePercent(st.pages + 1), Undefined))
     /\ UNCHANGED <<github, dbRepository, dbIssue>>

\* getIssues resolves with n issues, which are transformed into the array
\* that becomes results.issues.
IssuesOk(r, n) ==
  LET st == runs[r]
      issues == [i \in 1..n |-> [number |-> i, repository_id |-> Undefined]]
  IN /\ st.pc["issues"] = "getIssues"
     /\ st.pages = MaxPages
     /\ Commit(r, TaskCallback(
                    Progress([st EXCEPT !.issues = issues], "issues", PercentOne, Undefined),
                    "issues", Null, [kind |-> "issues", length |-> n]))
     /\ UNCHANGED <<github, dbRepository, dbIssue>>

\* getIssues rejects.
IssuesErr(r, m) ==
  /\ runs[r].pc["issues"] = "getIssues"
  /\ Commit(r, TaskCallback(runs[r], "issues", Error(m), Undefined))
  /\ UNCHANGED <<github, dbRepository, dbIssue>>

\* Repository.upsert(row): the row replaces the one with its id or with its
\* (owner, name), which the unique index allows only once.
Upsert(table, row) ==
  {x \in table : x.id # row.id /\ <<x.owner, x.name>> # <<row.owner, row.name>>}
    \cup {row}

\* A deletion that removes nothing.
DestroyNothing(table, repoId) == table

\* Issue.destroy({where: {repository_id: repoId}})
Destroy(table, repoId) ==
  LET kept == {x \in DOMAIN table : x.repository_id # Num(repoId)}
  IN [x \in kept |-> table[x]]

\* Issue.bulkCreate(issues): a row is inserted for every issue.
BulkCreate(table, issues) ==
  table (+) SetToBag({issues[i] : i \in 1..Len(issues)})

\* The loop without the assignment.
AssociateNothing(issues, repoId) == issues

\* _.each(issues, (issue) => { issue.repository_id = repoId; })
Associate(issues, repoId) ==
  [i \in 1..Len(issues) |->
     [issues[i] EXCEPT !.repository_id = Num(repoId)]]

\* The upsert followed directly by the bulk insert.
RecordsUpsertOkSkipsDestroy(r) ==
  LET st == runs[r]
      repo == st.results["repo"]
      row == [id |-> repo.id, owner |-> repo.owner, name |-> repo.name]
  IN /\ st.pc["records"] = "upsert"
     /\ dbRepository' = Upsert(dbRepository, row)
     /\ Commit(r, [Call(Progress([st EXCEPT !.issues = Associate(@, repo.id)],
                                  "records", PercentHalf, Undefined),
                         "bulkCreate", Undefined)
                     EXCEPT !.pc["records"] = "bulkCreate"])
     /\ UNCHANGED <<github, dbIssue>>

\* Repository.upsert(results.repo) resolves.
RecordsUpsertOk(r) ==
  LET st == runs[r]
      repo == st.results["repo"]
      row == [id |-> repo.id, owner |-> repo.owner, name |-> repo.name]
  IN /\ st.pc["records"] = "upsert"
     /\ dbRepository' = Upsert(dbRepository, row)
     /\ Commit(r, [Call(Progress(st, "records", PercentHalf, Undefined),
                         "destroy", Undefined)
                     EXCEPT !.pc["records"] = "destroy"])
     /\ UNCHANGED <<github, dbIssue>>

\* Issue.destroy({where: {repository_id: repoId}}) resolves; the issues are
\* then tied to the repository and handed to Issue.bulkCreate.
RecordsDestroyOk(r) ==
  LET st == runs[r]
      repoId == st.results["repo"].id
      issues == Associate(st.issues, repoId)
  IN /\ st.pc["records"] = "destroy"
     /\ dbIssue' = Destroy(dbIssue, repoId)
     /\ Commit(r, [Call(Progress([st EXCEPT !.issues = issues], "records",
                                  PercentSix, Undefined),
                         "bulkCreate", Undefined)
                     EXCEPT !.pc["records"] = "bulkCreate"])
     /\ UNCHANGED <<github, dbRepository>>

\* Issue.bulkCreate(issues) resolves with the created records.
RecordsBulkCreateOk(r) ==
  LET st == runs[r]
  IN /\ st.pc["records"] = "bulkCreate"
     /\ dbIssue' = BulkCreate(dbIssue, st.issues)
     /\ Commit(r, TaskCallback(Progress(st, "records", PercentOne, Undefined),
                               "records", Null,
                               [kind |-> "created", length |-> Len(st.issues),
                                rows |-> st.issues]))
     /\ UNCHANGED <<github, dbRepository>>

\* One of the three persistence calls rejects.
RecordsErr(r, m) ==
  /\ runs[r].pc["records"] \in {"upsert", "destroy", "bulkCreate"}
  /\ Commit(r, TaskCallback(runs[r], "records", Error(m), Undefined))
  /\ UNCHANGED <<github, dbRepository, dbIssue>>

\* The webhooks task passing the error on: return cb(err && err.message)
HookCallbackErrPassed(err) == ErrMessage(err)

\* The error the webhooks task passes to its callback when createHook
\* answered err: none (return cb()).
HookCallbackErr(err) == Undefined

\* socket.github.repos.createHook answers, with an error or without.
HookDone(r, err) ==
  LET st == runs[r]
  IN /\ st.pc["webhooks"] = "createHook"
     /\ Commit(r, TaskCallback(Progress(st, "webhooks", PercentOne, ErrMessage(err)),
                               "webhooks", HookCallbackErr(err), Undefined))
     /\ UNCHANGED <<github, dbRepository, dbIssue>>

\* train(owner, name, issues, ignoreLabels) resolves.
TrainOk(r) ==
  LET st == runs[r]
  IN /\ st.pc["train"] = "train"
     /\ Commit(r, TaskCallback(Progress(st, "train", PercentOne, Undefined),
                               "train", Undefined, Undefined))
     /\ UNCHANGED <<github, dbRepository, dbIssue>>

\* train(...) rejects.
TrainErr(r, m) ==
  /\ runs[r].pc["train"] = "train"
  /\ Commit(r, TaskCallback(runs[r], "train", Error(m), Undefined))
  /\ UNCHANGED <<github, dbRepository, dbIssue>>

\* The answers createHook can give.
HookErrs == {Undefined} \cup {Error(m) : m \in HookMessages}

\* The completion of task t's pending collaborator call in request r.
Completion(r, t) ==
  CASE t = "repo" -> RepoGetOk(r) \/ \E m \in Messages : RepoGetErr(r, m)
    [] t = "issues" ->
         IssuesPage(r) \/ (\E n \in 0..MaxIssues : IssuesOk(r, n))
           \/ \E m \in Messages : IssuesErr(r, m)
    [] t = "records" ->
         RecordsUpsertOk(r) \/ RecordsDestroyOk(r) \/ RecordsBulkCreateOk(r)
           \/ \E m \in Messages : RecordsErr(r, m)
    [] t = "webhooks" -> \E err \in HookErrs : HookDone(r, err)
    [] t = "train" -> TrainOk(r) \/ \E m \in Messages : TrainErr(r, m)

Next ==
  \E r \in Solo :
    \/ \E url \in Urls : Request(r, url)
    \/ RepoGetOk(r)
    \/ \E m \in Messages : RepoGetErr(r, m)
    \/ IssuesPage(r)
    \/ \E n \in 0..MaxIssues : IssuesOk(r, n)
    \/ \E m \in Messages : IssuesErr(r, m)
    \/ RecordsUpsertOk(r)
    \/ RecordsDestroyOk(r)
    \/ RecordsBulkCreateOk(r)
    \/ \E m \in Messages : RecordsErr(r, m)
    \/ \E err \in HookErrs : HookDone(r, err)
    \/ TrainOk(r)
    \/ \E m \in Messages : TrainErr(r, m)

Spec == Init /\ [][Next]_vars

\* Every collaborator call eventually returns.
Fairness == \A r \in Solo : \A t \in TaskSet : WF_vars(Completion(r, t))

FairSpec == Spec /\ Fairness

\* ------------------------------------------------- more than one request
\* The specifications with two requests use one repository URL per request
\* and one error message.
RepoA == "https://github.com/acme/widgets"
RepoB == "https://github.com/acme/gadgets"
OneMessage == {"E1"}

\* The callbacks of the collaborator calls of request r.
Callbacks(r, msgs) ==
  \/ RepoGetOk(r)
  \/ \E m \in msgs : RepoGetErr(r, m)
  \/ IssuesPage(r)
  \/ \E n \in 0..MaxIssues : IssuesOk(r, n)
  \/ \E m \in msgs : IssuesErr(r, m)
  \/ RecordsUpsertOk(r)
  \/ RecordsDestroyOk(r)
  \/ RecordsBulkCreateOk(r)
  \/ \E m \in msgs : RecordsErr(r, m)
  \/ \E err \in HookErrs : HookDone(r, err)
  \/ TrainOk(r)
  \/ \E m \in msgs : TrainErr(r, m)

\* Request r has been answered and none of its tasks is in flight.
Quiet(r) ==
  /\ runs[r].reply # <<>>
  /\ \A t \in TaskSet : runs[r].pc[t] \in {"idle", "succeeded", "failed"}

\* Every socket is authenticated; both requests come from socket s1.
InitSameSocket ==
  /\ github = [s \in Sockets |-> TRUE]
  /\ rooms = [s \in Sockets |-> {}]
  /\ runs = [r \in Runs |-> NoRun]
  /\ dbRepository = {}
  /\ dbIssue = EmptyBag

\* Every socket is authenticated; request r1 comes from socket s1 and
\* request r2 from socket s2.
InitTwoSockets ==
  /\ github = [s \in Sockets |-> TRUE]
  /\ rooms = [s \in Sockets |-> {}]
  /\ runs = [r \in Runs |-> [NoRun EXCEPT !.socket = IF r = "r1" THEN "s1" ELSE "s2"]]
  /\ dbRepository = {}
  /\ dbIssue = EmptyBag

\* Two requests for the same repository, the second made when the first is
\* over.
SeqNext ==
  \/ Request("r1", RepoA)
  \/ (Quiet("r1") /\ Request("r2", RepoA))
  \/ \E r \in Runs : Callbacks(r, OneMessage)

SeqSpec == InitSameSocket /\ [][SeqNext]_vars

\* Two concurrent requests of one socket for the same repository.
SameNext ==
  \/ \E r \in Runs : Request(r, RepoA)
  \/ \E r \in Runs : Callbacks(r, OneMessage)

SameSpec == InitSameSocket /\ [][SameNext]_vars

\* Two concurrent requests of two sockets for two repositories.
IsolNext ==
  \/ Request("r1", RepoA)
  \/ Request("r2", RepoB)
  \/ \E r \in Runs : Callbacks(r, OneMessage)

IsolSpec == InitTwoSockets /\ [][IsolNext]_vars

\* ------------------------------------------------------------ task states
\* The pipeline of request r was started (the request passed validation).
Started(r) == runs[r].repoRoom # ""

\* A task of request r has called back with an error.
HasFailed(r) == \E i \in 1..Len(runs[r].history) : ~Falsy(runs[r].history[i].err)

Invoked(r, t) == runs[r].pc[t] # "idle"
Succeeded(r, t) == runs[r].pc[t] = "succeeded"
Failed(r, t) == runs[r].pc[t] = "failed"
Running(r, t) == runs[r].pc[t] \notin {"idle", "succeeded", "failed", "threw"}
\* Not invoked, and not to be invoked any more: a task has failed.
Skipped(r, t) == runs[r].pc[t] = "idle" /\ HasFailed(r)
Pending(r, t) == Started(r) /\ runs[r].pc[t] = "idle" /\ ~HasFailed(r)

\* The tasks t depends on, directly or through other tasks.
RECURSIVE TransDeps(_)
TransDeps(t) == DepSet(t) \cup UNION {TransDeps(d) : d \in DepSet(t)}

\* The tasks of request r that failed, in the order they failed.
Failures(r) == SelectSeq(runs[r].history, LAMBDA h : ~Falsy(h.err))

\* ----------------------------------------------------------------- claims
\* C1: a task's body is invoked only after every task of its dependency list
\* has succeeded and that task's result is recorded in the results map.
DependencyOrder ==
  \A r \in Runs : \A t \in TaskSet :
    Invoked(r, t) =>
      \A d \in DepSet(t) : Succeeded(r, d) /\ runs[r].results[d] # Absent

\* C1 witness: train is running on the results of repo and records.
TrainRunsOnItsDependencies ==
  \E r \in Runs : runs[r].pc["train"] = "train"
                    /\ runs[r].results["records"] # Absent

\* C2: when a task has failed, every task that depends on it, directly or
\* transitively, has not been invoked and is Skipped.
SkipPropagation ==
  \A r \in Runs : \A a \in TaskSet : \A b \in TaskSet :
    (Failed(r, a) /\ a \in TransDeps(b)) => (~Invoked(r, b) /\ Skipped(r, b))

\* C2 witness: issues failed after repo succeeded and webhooks finished;
\* records and train stay uninvoked.
DependentsSkipped ==
  \E r \in Runs : /\ Failed(r, "issues")
                  /\ Succeeded(r, "repo")
                  /\ Succeeded(r, "webhooks")
                  /\ Skipped(r, "records")
                  /\ Skipped(r, "train")

\* C3: once a task has failed no task body is started, whether or not the
\* task depends on the failed one, and a task that is running stays in
\* flight until its own collaborator call completes, which remains possible.
Draining ==
  /\ [](\A r \in Runs : \A t \in TaskSet :
          (HasFailed(r) /\ Running(r, t)) => ENABLED Completion(r, t))
  /\ [][\A r \in Runs : \A t \in TaskSet :
          HasFailed(r) =>
            /\ (runs[r].pc[t] = "idle" => runs'[r].pc[t] = "idle")
            /\ (Running(r, t) =>
                  runs'[r].pc[t] \notin {"idle", "threw"})]_vars

\* C3 witness: issues failed first, repo succeeded afterwards, and webhooks,
\* which depends on repo alone, was not started.
WebhooksNotStartedAfterFailure ==
  \E r \in Runs :
    /\ Len(runs[r].history) = 2
    /\ runs[r].history[1].task = "issues" /\ ~Falsy(runs[r].history[1].err)
    /\ runs[r].history[2].task = "repo" /\ Falsy(runs[r].history[2].err)
    /\ runs[r].pc["webhooks"] = "idle"

\* The position in the history of the first failure of request r.
FirstFailure(r) ==
  CHOOSE i \in 1..Len(runs[r].history) :
    /\ ~Falsy(runs[r].history[i].err)
    /\ \A j \in 1..(i - 1) : Falsy(runs[r].history[j].err)

\* The tasks that had succeeded when the first failure happened.
SucceededBeforeFailure(r) ==
  {runs[r].history[j].task : j \in 1..(FirstFailure(r) - 1)}

\* The keys of a results object.
Keys(results) == {t \in TaskSet : results[t] # Absent}

\* C4 as claimed: the outcome is delivered only when no task is Pending or
\* Running.
OutcomeOnlyWhenDrained ==
  \A r \in Runs :
    (Started(r) /\ runs[r].reply # <<>>) =>
      \A t \in TaskSet : ~Pending(r, t) /\ ~Running(r, t)

\* C4 amended: a successful outcome is delivered only when all tasks have
\* succeeded (none Pending, Ready or Running); a failure is delivered to the
\* caller in the very step in which the first task fails, whatever else is
\* still running.
OutcomeDelivery ==
  \A r \in Runs :
    Started(r) =>
      /\ (runs[r].reply # <<>> /\ Falsy(runs[r].reply[1].err))
            => \A t \in TaskSet : Succeeded(r, t)
      /\ HasFailed(r) => (runs[r].reply # <<>> /\ ~Falsy(runs[r].reply[1].err))
      /\ (runs[r].reply = <<>>) => \E t \in TaskSet : Running(r, t)

\* C4 witness: the failure outcome has been delivered while a task is still
\* running.
OutcomeWhileRunning ==
  \E r \in Runs : /\ runs[r].reply # <<>>
                  /\ Failed(r, "repo")
                  /\ Running(r, "issues")

\* C5: the caller is answered at most once, and when tasks failed, with the
\* message of the error of the task that failed first.
FirstErrorWins ==
  \A r \in Runs :
    /\ Len(runs[r].reply) <= 1
    /\ (Started(r) /\ HasFailed(r)) =>
         /\ Len(runs[r].reply) = 1
         /\ runs[r].reply[1].err = Str(runs[r].history[FirstFailure(r)].err.message)

\* C5 witness: issues failed, then repo failed with another error; one answer.
TwoFailuresOneAnswer ==
  \E r \in Runs :
    /\ Len(Failures(r)) = 2
    /\ Failures(r)[1].task = "issues"
    /\ Failures(r)[2].task = "repo"
    /\ Failures(r)[1].err # Failures(r)[2].err
    /\ Len(runs[r].reply) = 1

\* C6: when every collaborator call returns, every request is answered.
EventuallyAnswered ==
  \A r \in Runs : runs[r].requested ~> (runs[r].reply # <<>>)

\* C6 witness: issues failed while repo was in flight and webhooks, which does
\* not depend on issues, had not been started; the caller has its answer.
AnsweredWithTaskPending ==
  \E r \in Runs :
    /\ Len(runs[r].history) = 1
    /\ Failed(r, "issues")
    /\ runs[r].pc["repo"] = "get"
    /\ runs[r].pc["webhooks"] = "idle"
    /\ runs[r].reply # <<>>

\* C7 as claimed: success exactly when no task failed, then with all five
\* entries; otherwise the first error with exactly the entries of the tasks
\* that had succeeded when the error was recorded.
OutcomeResultsAsClaimed ==
  \A r \in Runs :
    (Started(r) /\ runs[r].reply # <<>>) =>
      LET o == runs[r].reply[1]
      IN /\ Falsy(o.err) <=> ~HasFailed(r)
         /\ Falsy(o.err) => Keys(o.results) = TaskSet
         /\ ~Falsy(o.err) =>
              /\ o.err = Str(runs[r].history[FirstFailure(r)].err.message)
              /\ Keys(o.results) = SucceededBeforeFailure(r)

\* C7 amended: as claimed, except that the partial results also hold an
\* entry under the key of the failed task, with the value undefined; the
\* other entries are those of the tasks that had succeeded, with the values
\* they recorded, and results recorded later do not appear.
OutcomeResults ==
  \A r \in Runs :
    (Started(r) /\ runs[r].reply # <<>>) =>
      LET o == runs[r].reply[1]
      IN /\ Falsy(o.err) <=> ~HasFailed(r)
         /\ Falsy(o.err) => (Keys(o.results) = TaskSet /\ o.results = runs[r].results)
         /\ ~Falsy(o.err) =>
              LET failed == runs[r].history[FirstFailure(r)]
              IN /\ o.err = Str(failed.err.message)
                 /\ Keys(o.results) = SucceededBeforeFailure(r) \cup {failed.task}
                 /\ o.results[failed.task] = Undefined
                 /\ \A t \in SucceededBeforeFailure(r) : o.results[t] = runs[r].results[t]

\* C7 witness: issues failed first and repo succeeded afterwards: the answer
\* holds the issues key, and not the result of repo.
PartialResultsDelivered ==
  \E r \in Runs :
    /\ runs[r].reply # <<>>
    /\ Failed(r, "issues")
    /\ Succeeded(r, "repo")
    /\ Succeeded(r, "webhooks") = FALSE
    /\ runs[r].reply[1].results["repo"] = Absent
    /\ runs[r].reply[1].results["issues"] = Undefined

\* All tasks whose failure fails the run have succeeded.
FatalTasksSucceeded(r) ==
  \A t \in {"repo", "issues", "records", "train"} : Succeeded(r, t)

\* createHook answered request r with an error.
HookFailed(r) ==
  \E i \in 1..Len(runs[r].emitted["webhooks"]) :
    ~Falsy(runs[r].emitted["webhooks"][i].message)

\* C8: the webhooks task never fails; when createHook answers with an error
\* the task still succeeds, the error shows only as the message of its
\* percent-1 progress event, never as the caller's error, and when the four
\* other tasks succeed the caller is answered with success.
BestEffortWebhook ==
  \A r \in Runs :
    /\ ~Failed(r, "webhooks")
    /\ \A i \in 1..Len(runs[r].reply) :
         runs[r].reply[i].err \notin {Str(m) : m \in HookMessages}
    /\ HookFailed(r) =>
         /\ Succeeded(r, "webhooks")
         /\ runs[r].results["webhooks"] = Undefined
         /\ \E m \in HookMessages :
              runs[r].emitted["webhooks"] =
                <<[percent |-> PercentZero, message |-> Undefined],
                  [percent |-> PercentOne, message |-> Str(m)]>>
         /\ FatalTasksSucceeded(r) =>
              (Len(runs[r].reply) = 1 /\ Falsy(runs[r].reply[1].err)
                 /\ Keys(runs[r].reply[1].results) = TaskSet)

\* C8 witness: createHook failed, the other tasks succeeded, the answer is
\* success.
SuccessDespiteHookFailure ==
  \E r \in Runs : /\ HookFailed(r)
                  /\ FatalTasksSucceeded(r)
                  /\ runs[r].reply # <<>>
                  /\ Falsy(runs[r].reply[1].err)

\* The URLs that name a repository.
WellFormedUrls == {"https://github.com/acme/widgets", "https://github.com/acme/gadgets"}

\* Request r has run no part of the pipeline.
NoPipeline(st) ==
  /\ st.repoRoom = ""
  /\ st.runningTasks = 0
  /\ \A t \in TaskSet : st.pc[t] = "idle" /\ st.emitted[t] = <<>>
                          /\ st.results[t] = Absent

\* C9: a request without an authenticated session is answered with the
\* missing-credential error, one with a malformed URL with the invalid-URL
\* error; the request joins no room, publishes no event and invokes no task,
\* then or later.
ValidationRejects ==
  /\ [](\A r \in Runs :
          (runs[r].requested
             /\ (~github[runs[r].socket] \/ runs[r].url \notin WellFormedUrls))
             => NoPipeline(runs[r]))
  /\ [][\A r \in Runs :
          (~runs[r].requested /\ runs'[r].requested
             /\ (~github[runs[r].socket] \/ runs'[r].url \notin WellFormedUrls)) =>
            /\ runs'[r].reply =
                 <<[err |-> IF ~github[runs[r].socket] THEN MISSING_GITHUB ELSE INVALID_URL,
                    results |-> Undefined]>>
            /\ rooms' = rooms
            /\ NoPipeline(runs'[r])]_vars

\* C9 witness: an authenticated request for a URL without a repository name
\* was answered with the invalid-URL error.
MalformedUrlRejected ==
  \E r \in Runs : /\ github[runs[r].socket]
                  /\ runs[r].requested
                  /\ runs[r].url = "https://github.com/acme"
                  /\ runs[r].reply = <<[err |-> INVALID_URL, results |-> Undefined]>>

\* C10: the percents a task publishes within a run never decrease, and the
\* last percent of a task that succeeded is 1.
ProgressMonotone ==
  \A r \in Runs : \A t \in TaskSet :
    LET e == runs[r].emitted[t]
    IN /\ \A i \in 1..(Len(e) - 1) : e[i].percent <= e[i + 1].percent
       /\ Succeeded(r, t) => (e # <<>> /\ e[Len(e)].percent = PercentOne)

\* C10 witness: records and issues have succeeded, each after publishing its
\* intermediate percents.
AllPercentsPublished ==
  \E r \in Runs : /\ Succeeded(r, "records")
                  /\ Len(runs[r].emitted["records"]) = 4
                  /\ Succeeded(r, "issues")
                  /\ Len(runs[r].emitted["issues"]) = MaxPages + 1

\* All five tasks of request r have succeeded.
AllSucceeded(r) == \A t \in TaskSet : Succeeded(r, t)

\* The percents task t of request r has published, in order.
Percents(r, t) ==
  [i \in 1..Len(runs[r].emitted[t]) |-> runs[r].emitted[t][i].percent]

\* C11 as claimed: in a fully successful run every task publishes a percent
\* 0 and later a percent 1, and the answer holds one persisted issue record
\* per fetched issue, each with the repository's id as repository_id.
BoundaryEventsAndRecords ==
  \A r \in Runs :
    AllSucceeded(r) =>
      /\ \A t \in TaskSet :
           \E i \in 1..Len(Percents(r, t)) : \E j \in (i + 1)..Len(Percents(r, t)) :
             Percents(r, t)[i] = PercentZero /\ Percents(r, t)[j] = PercentOne
      /\ LET created == runs[r].reply[1].results["records"]
         IN /\ created.length = runs[r].results["issues"].length
            /\ \A i \in 1..Len(created.rows) :
                 created.rows[i].repository_id = Num(runs[r].results["repo"].id)

\* The calls request r made to collaborator fn, in order.
CallsTo(r, fns) == SelectSeq(runs[r].calls, LAMBDA c : c.fn \in fns)

\* C13: once the train body has run, the trainer has been called exactly
\* once, with the repository's owner and name, the fetched issues and no
\* ignored labels, when more than one issue was fetched, and not at all
\* otherwise, in which case the task has published percent 1 and succeeded.
TrainingThreshold ==
  \A r \in Runs :
    Invoked(r, "train") =>
      LET n == runs[r].results["issues"].length
          trained == CallsTo(r, {"train"})
      IN IF n > 1
           THEN /\ Len(trained) = 1
                /\ trained[1].arg = [owner |-> runs[r].owner,
                                     name |-> runs[r].name,
                                     issues |-> runs[r].issues,
                                     ignoreLabels |-> <<>>]
                /\ Len(trained[1].arg.issues) = n
           ELSE /\ trained = <<>>
                /\ Succeeded(r, "train")
                /\ Percents(r, "train") = <<PercentZero, PercentOne>>

\* C13 witness: two issues were fetched and the trainer is running on them.
TrainerCalledOnTwoIssues ==
  \E r \in Runs : /\ runs[r].pc["train"] = "train"
                  /\ runs[r].results["issues"].length = 2
                  /\ Len(CallsTo(r, {"train"})) = 1

\* C15 as claimed: once a result is recorded, neither the entry nor the
\* value it holds changes; the issues read by train are those recorded.
ResultsReadOnly ==
  [][\A r \in Runs :
       /\ \A t \in TaskSet :
            runs[r].results[t] # Absent => runs'[r].results[t] = runs[r].results[t]
       /\ runs[r].results["issues"] # Absent => runs'[r].issues = runs[r].issues]_vars

\* C15 amended: an entry, once recorded, is never replaced or removed, and
\* the issues array keeps its length and its issue numbers; the records task
\* however sets repository_id on every issue of the array in place, so that
\* train reads the issues with the repository's id on them.
ResultEntriesWriteOnce ==
  /\ [][\A r \in Runs :
          /\ \A t \in TaskSet :
               runs[r].results[t] # Absent => runs'[r].results[t] = runs[r].results[t]
          /\ runs[r].results["issues"] # Absent =>
               /\ Len(runs'[r].issues) = Len(runs[r].issues)
               /\ \A i \in 1..Len(runs[r].issues) :
                    runs'[r].issues[i].number = runs[r].issues[i].number]_vars
  /\ [](\A r \in Runs :
          Invoked(r, "train") =>
            \A i \in 1..Len(runs[r].issues) :
              runs[r].issues[i].repository_id = Num(runs[r].results["repo"].id))

\* C15 witness: train runs on issues that records has modified since they
\* were recorded.
TrainReadsModifiedIssues ==
  \E r \in Runs : /\ runs[r].pc["train"] = "train"
                  /\ Len(runs[r].issues) = 2
                  /\ runs[r].issues[1].repository_id # Undefined

\* The persistence calls of the records task.
DbCalls == {"upsert", "destroy", "bulkCreate"}

\* C16: the records task calls upsert, destroy and bulkCreate in this order
\* and publishes 0 before the upsert, 0.5 after it, 0.6 after the deletion
\* and 1 after the bulk insert; after a failed step it makes no further
\* call, publishes nothing more and has failed with that step's error.
RecordsStepOrder ==
  /\ [](\A r \in Runs :
          LET pc == runs[r].pc["records"]
              calls == [i \in 1..Len(CallsTo(r, DbCalls)) |-> CallsTo(r, DbCalls)[i].fn]
              published == Percents(r, "records")
          IN /\ pc = "idle" => (calls = <<>> /\ published = <<>>)
             /\ pc = "upsert" =>
                  (calls = <<"upsert">> /\ published = <<PercentZero>>)
             /\ pc = "destroy" =>
                  (calls = <<"upsert", "destroy">>
                     /\ published = <<PercentZero, PercentHalf>>)
             /\ pc = "bulkCreate" =>
                  (calls = <<"upsert", "destroy", "bulkCreate">>
                     /\ published = <<PercentZero, PercentHalf, PercentSix>>)
             /\ pc = "succeeded" =>
                  (calls = <<"upsert", "destroy", "bulkCreate">>
                     /\ published = <<PercentZero, PercentHalf, PercentSix, PercentOne>>)
             /\ pc = "failed" =>
                  /\ <<calls, published>> \in
                       {<<(<<"upsert">>), (<<PercentZero>>)>>,
                        <<(<<"upsert", "destroy">>), (<<PercentZero, PercentHalf>>)>>,
                        <<(<<"upsert", "destroy", "bulkCreate">>),
                          (<<PercentZero, PercentHalf, PercentSix>>)>>}
                  /\ runs[r].results["records"] = Absent)
  /\ [][\A r \in Runs :
          Failed(r, "records") =>
            /\ runs'[r].calls = runs[r].calls
            /\ runs'[r].emitted["records"] = runs[r].emitted["records"]
            /\ runs'[r].pc["records"] = "failed"]_vars

\* C16 witness: the deletion failed after the upsert: two calls, percents 0
\* and 0.5, and the task has failed.
RecordsFailedAtDestroy ==
  \E r \in Runs : /\ Failed(r, "records")
                  /\ Len(CallsTo(r, DbCalls)) = 2
                  /\ Percents(r, "records") = <<PercentZero, PercentHalf>>

\* The result keys the body of each task reads.
Reads ==
  [repo |-> {}, issues |-> {}, records |-> {"repo", "issues"},
   webhooks |-> {"repo"}, train |-> {"issues", "repo"}]

\* C19: when a task body runs, every result key it reads has been written by
\* a task that succeeded; in particular train finds the issues result.
ReadsAreWritten ==
  \A r \in Runs : \A t \in TaskSet :
    Invoked(r, t) =>
      /\ runs[r].pc[t] # "threw"
      /\ \A k \in Reads[t] : Succeeded(r, k) /\ runs[r].results[k] # Absent

\* C19 witness: train is running and has read the issues result.
TrainFoundIssues ==
  \E r \in Runs : /\ runs[r].pc["train"] = "train"
                  /\ runs[r].results["issues"] # Absent

\* Socket s has asked for the repository of request r: it has joined the
\* room of that repository's topic.
Subscribed(s, r) ==
  \E q \in Runs : /\ runs[q].socket = s
                  /\ Started(q)
                  /\ <<runs[q].owner, runs[q].name>> = <<runs[r].owner, runs[r].name>>

\* C12: an event published by a run reaches only sockets that have
\* subscribed to the topic of that run's repository; a socket subscribed to
\* another repository alone receives none of them.
TopicIsolation ==
  \A r \in Runs : \A t \in TaskSet : \A i \in 1..Len(runs[r].audience[t]) :
    \A s \in runs[r].audience[t][i].to : Subscribed(s, r)

\* C12 witness: both runs are in flight, each socket in the room of its own
\* repository, and the events published so far went to the own socket alone.
EventsStayInTheirRoom ==
  /\ rooms = [s \in Sockets |-> IF s = "s1" THEN {"repo:acme/widgets"}
                                             ELSE {"repo:acme/gadgets"}]
  /\ \A r \in Runs :
       /\ Len(runs[r].audience["records"]) >= 2
       /\ \A t \in TaskSet : \A i \in 1..Len(runs[r].audience[t]) :
            runs[r].audience[t][i].to = {runs[r].socket}

\* The issue rows request r hands to the bulk insert.
IssueRows(r) == SetToBag({runs[r].issues[i] : i \in 1..Len(runs[r].issues)})

\* C14: when the records stage has run to its end twice in succession for
\* the same repository and the same issues, storage holds one Repository
\* row for that (owner, name) and the Issue rows of the first run, each
\* once.
IdempotentPersistence ==
  (/\ Succeeded("r1", "records")
   /\ Succeeded("r2", "records")
   /\ <<runs["r1"].owner, runs["r1"].name>> = <<runs["r2"].owner, runs["r2"].name>>
   /\ Len(runs["r1"].issues) = Len(runs["r2"].issues))
    => /\ Cardinality({x \in dbRepository :
                         x.owner = runs["r1"].owner /\ x.name = runs["r1"].name}) = 1
       /\ dbIssue = IssueRows("r1")
       /\ \A x \in DOMAIN dbIssue : dbIssue[x] = 1

\* C14 witness: both runs have stored the same two issues.
StoredTwice ==
  /\ Succeeded("r1", "records")
  /\ Succeeded("r2", "records")
  /\ Len(runs["r1"].issues) = 2
  /\ Len(runs["r2"].issues) = 2

\* C17 as claimed: the requesting socket is in the run's room at every
\* progress event the run publishes before the request is answered.
RequesterInRoom ==
  \A r \in Runs : \A t \in TaskSet : \A i \in 1..Len(runs[r].audience[t]) :
    ~runs[r].audience[t][i].answered =>
      runs[r].socket \in runs[r].audience[t][i].to

\* C18 as claimed: when both concurrent runs have completed their records
\* stage, the Issue rows are those inserted by one of the two runs.
OneRunsIssuesStored ==
  (Succeeded("r1", "records") /\ Succeeded("r2", "records"))
    => (dbIssue = IssueRows("r1") \/ dbIssue = IssueRows("r2"))

====
